---- MODULE Spec2Model ----
(***************************************************************************)
(* A model of create-video.py: the catalogue of media files, the narration *)
(* cache, the timeline pass that renders one segment per item, the concat  *)
(* manifest, the final concatenation and the GIF export.                   *)
(*                                                                         *)
(* A file is a record [dir, stem, suffix]: the directory it lives in, the  *)
(* numeric prefix that decides its place in the sorted listing, and its    *)
(* extension exactly as spelled on disk.                                   *)
(***************************************************************************)
EXTENDS Integers, Sequences, FiniteSets, TLC

\* ------------------------------------------------------------------ bounds
MaxFiles == 3       \* at most this many files in the two directories together (Spec)
MaxCacheFiles == 2  \* the same, in the narration scenarios (SpecCache)
MaxBuilds == 2      \* runs of the program in one behaviour (SpecCache)
MaxClock == 2       \* the last tick of the file-system clock

\* --------------------------------------------------------------- constants
FRAME_DURATION == 2

valid_extensions == {".png", ".mp3", ".wav", ".txt"}

\* The extensions the model puts on disk: the supported kinds, an upper-case
\* spelling of an image, and a kind the catalogue does not support.
Suffixes == {".png", ".PNG", ".mp3", ".txt", ".md"}

\* The extensions of the narration-cache scenarios.
CacheSuffixes == {".png", ".txt"}

\* What ffprobe may print for an audio file.
ProbeOutputs == {"", "N/A", "abc", "3"}

\* How an ffmpeg process may end: exit status 0 with its output written, a
\* nonzero status with no output, a nonzero status with a truncated output.
FfmpegOutcomes == {"ok", "fail", "fail-partial"}

\* How run_kokoro_tts may end.
TtsOutcomes == {"ok", "empty-text", "no-audio", "no-package"}

None == -1

NoFile == [dir |-> "none", stem |-> 0, suffix |-> ""]

\* ----------------------------------------------------------------- helpers
SeqsUpTo(S, n) == UNION {[1..m -> S] : m \in 0..n}

\* str.lower() on an extension.
Lower(s) ==
    CASE s = ".PNG" -> ".png"
      [] s = ".MP3" -> ".mp3"
      [] s = ".WAV" -> ".wav"
      [] s = ".TXT" -> ".txt"
      [] s = ".MD"  -> ".md"
      [] OTHER -> s

\* The files of directory d whose k-th entry (in name order) has extension q[k].
FilesOf(d, q) == {[dir |-> d, stem |-> j, suffix |-> q[j]] : j \in 1..Len(q)}

\* sorted(): ascending by file name; names in one directory differ in their
\* numeric prefix.
RECURSIVE Sorted(_)
Sorted(S) ==
    IF S = {} THEN <<>>
    ELSE LET f == CHOOSE x \in S : \A y \in S : x.stem <= y.stem
         IN  <<f>> \o Sorted(S \ {f})

CountSuffix(q, exts) == Cardinality({j \in 1..Len(q) : q[j].suffix \in exts})

\* The three suffix tests of the script, each an exact string comparison.
IsPng(f) == f.suffix = ".png"
IsAudio(f) == f.suffix \in {".mp3", ".wav"}
IsTxt(f) == f.suffix = ".txt"

\* The kind of a catalogued item as the specification defines it: by its
\* extension, whatever the letter case.
KindOf(f) ==
    CASE Lower(f.suffix) = ".png" -> "Image"
      [] Lower(f.suffix) \in {".mp3", ".wav"} -> "AudioClip"
      [] Lower(f.suffix) = ".txt" -> "NarrationText"
      [] OTHER -> "Unsupported"

\* ------------------------------------------------------------------- state
VARIABLES
    \* the file system
    existing,           \* which of the directories "main" (screenshots/<name>/) and "intro" exist
    screenshot_dir,     \* the files of screenshots/<name>/
    intro_dir,          \* the files of screenshots/intro/
    cache_dirs,         \* the directories whose generated-wav/ exists
    cache,              \* <<dir, stem>> -> [mtime, gen] of generated-wav/<stem>.wav (mtime 0: absent)
    src_mtime,          \* <<dir, stem>> -> mtime of the source file
    now,                \* the clock that stamps a written file
    segment_dir,        \* whether <name>-segments/ exists
    segment_files,      \* the files segment-<index>.mp4 present, each [index, state]
    concat_list,        \* the lines of concat-list.txt
    mp4_file, gif_file, palette_file,   \* "absent", "partial", "complete" or "previous"
    \* the command line
    no_intro,
    \* the program
    pc, exit_code,
    main_files, intro_files, media_files, use_intro,
    image_count, audio_count, tts_count,
    converted_files,
    i, segment_index, current_image, total_duration,
    \* what the run has done so far
    timeline,           \* the segments rendered, in order
    synth_calls,        \* the sources run_kokoro_tts was called for in this run
    probe_value,        \* what the latest ffprobe call printed ("-": none yet)
    ffmpeg_calls,       \* the ffmpeg calls of this run: [stage, index, outcome]
    cache0,             \* the cache as it was when this run started
    build,              \* the number of this run
    touched,            \* sources modified after their cache artifact was written
    regen,              \* touched source -> artifacts written for it since its modification
    runs_since          \* touched source -> runs that resolved it since its modification

fs_vars == <<existing, screenshot_dir, intro_dir, cache_dirs, cache, src_mtime, now,
             segment_dir, segment_files, concat_list, mp4_file, gif_file, palette_file>>
prog_vars == <<pc, exit_code, main_files, intro_files, media_files, use_intro,
               image_count, audio_count, tts_count, converted_files,
               i, segment_index, current_image, total_duration>>
hist_vars == <<timeline, synth_calls, probe_value, ffmpeg_calls, cache0, build,
               touched, regen, runs_since>>
vars == <<fs_vars, no_intro, prog_vars, hist_vars>>

Dirs == {"main", "intro"}
Stems == 1..(IF MaxFiles > MaxCacheFiles THEN MaxFiles ELSE MaxCacheFiles)
Keys == Dirs \X Stems

KeyOf(f) == <<f.dir, f.stem>>

\* ----------------------------------------------------------- the catalogue
\* Path.iterdir(): the entries of a directory, the generated-wav/
\* sub-directory among them when it exists.
iterdir(d, files) ==
    {[dir |-> f.dir, stem |-> f.stem, suffix |-> f.suffix, is_file |-> TRUE] : f \in files}
    \cup (IF d \in cache_dirs
          THEN {[dir |-> d, stem |-> 0, suffix |-> "", is_file |-> FALSE]}
          ELSE {})

\* The filter of both directory scans.
Supported(e) == e.is_file /\ Lower(e.suffix) \in valid_extensions

\* sorted(f for f in dir.iterdir() if ...).
Scan(d, files) ==
    LET kept == {e \in iterdir(d, files) : Supported(e)}
    IN  Sorted({[dir |-> e.dir, stem |-> e.stem, suffix |-> e.suffix] : e \in kept})

\* The intro scan with the --no-intro flag not looked at.
IntroScanIgnoringFlag ==
    IF "intro" \in existing THEN Scan("intro", intro_dir) ELSE <<>>

\* use_intro and intro_files after the optional intro scan.
IntroScan ==
    IF ~no_intro /\ "intro" \in existing THEN Scan("intro", intro_dir) ELSE <<>>

UseIntro == ~no_intro /\ "intro" \in existing /\ IntroScan # <<>>

\* The first-item check left out.
FirstItemUnchecked(media) == TRUE

\* The first-item check.
FirstItemOk(media) == IsPng(media[1])

\* ------------------------------------------------------ the narration cache
\* The freshness test with a non-strict comparison.
CacheFreshNonStrict(wav_mtime, txt_mtime) == wav_mtime # 0 /\ wav_mtime >= txt_mtime

\* The freshness test without the comparison of the modification times.
CacheFreshExistsOnly(wav_mtime, txt_mtime) == wav_mtime # 0

\* The freshness test of a cache entry: the artifact exists and is strictly
\* newer than its source.
CacheFresh(wav_mtime, txt_mtime) == wav_mtime # 0 /\ wav_mtime > txt_mtime

\* The cache directory of a narration item: the intro directory's own when
\* the item comes from it, the primary directory's otherwise.
wav_cache_dir(f) == IF use_intro /\ f.dir = "intro" THEN "intro" ELSE "main"

\* generated-wav/<stem>.wav
wav_path(f) ==
    [dir |-> IF wav_cache_dir(f) = "intro" THEN "intro/generated-wav" ELSE "main/generated-wav",
     stem |-> f.stem, suffix |-> ".wav"]

CacheKey(f) == <<wav_cache_dir(f), f.stem>>

\* ------------------------------------------------------------ the segments
\* segment_dir / f"segment-{segment_index:04d}.mp4", resolved.
segment_file(idx) == [dir |-> "/base/test-videos/name-segments", name |-> idx]

\* f"file '{segment_file.resolve()}'\n"
ManifestLine(idx) == <<"file ", "'", segment_file(idx), "'", "\n">>

\* What the concat demuxer reads back from a line: the path between the quotes.
ParseManifestLine(l) == l[3]

\* get_audio_duration with a default of 0 in place of the ValueError branch.
get_audio_duration_default(value) ==
    IF value = "" \/ value = "N/A" THEN None
    ELSE CASE value = "3" -> 3
           [] OTHER -> 0

\* get_audio_duration on what ffprobe printed.
get_audio_duration(value) ==
    IF value = "" \/ value = "N/A" THEN None
    ELSE CASE value = "3" -> 3
           [] OTHER -> None

\* The lookahead of the image branch: the very next item is audio.
NextIsAudio(media, p) == p + 1 <= Len(media) /\ IsAudio(media[p + 1])

\* subprocess.run without check=True: no exit status raises.
UncheckedRunRaises(out) == FALSE

\* subprocess.run(..., check=True): a nonzero exit status raises.
CheckedRunRaises(out) == out # "ok"

\* The output files and the segment directory.
Outputs == <<segment_dir, segment_files, concat_list, mp4_file, gif_file, palette_file>>

\* ---------------------------------------------------------------- the runs
NarrationKeys(files) == {KeyOf(f) : f \in {g \in files : IsTxt(g)}}

\* A run that has not started: the state main() begins in.
ProgramStart ==
    /\ pc = "catalog"
    /\ exit_code = None
    /\ main_files = <<>> /\ intro_files = <<>> /\ media_files = <<>>
    /\ use_intro = FALSE
    /\ image_count = 0 /\ audio_count = 0 /\ tts_count = 0
    /\ converted_files = <<>>
    /\ i = 1 /\ segment_index = 0 /\ current_image = NoFile /\ total_duration = 0
    /\ timeline = <<>> /\ synth_calls = {} /\ probe_value = "-" /\ ffmpeg_calls = <<>>

HistoryStart ==
    /\ build = 1
    /\ touched = {}
    /\ regen = [key \in Keys |-> 0]
    /\ runs_since = [key \in Keys |-> 0]

\* The directories hold up to MaxFiles files of any of the extensions; an
\* earlier run may have left its outputs and a segment directory behind; the
\* narration sources have no cache entry, a stale one (as old as the
\* source) or a fresh one.
Init ==
    /\ existing \in {{"main", "intro"}, {"main"}, {"intro"}}
    /\ \E qm \in SeqsUpTo(Suffixes, MaxFiles) :
          \E qi \in SeqsUpTo(Suffixes, MaxFiles - Len(qm)) :
             /\ ("main" \notin existing) => qm = <<>>
             /\ ("intro" \notin existing) => qi = <<>>
             /\ screenshot_dir = FilesOf("main", qm)
             /\ intro_dir = FilesOf("intro", qi)
    /\ no_intro \in BOOLEAN
    /\ now = MaxClock
    /\ src_mtime = [key \in Keys |-> 1]
    /\ \E c \in IF NarrationKeys(screenshot_dir \cup intro_dir) = {} THEN {0} ELSE {0, 1, 2} :
          /\ cache = [key \in Keys |->
                        IF key \in NarrationKeys(screenshot_dir \cup intro_dir)
                        THEN [mtime |-> c, gen |-> 0] ELSE [mtime |-> 0, gen |-> 0]]
          /\ cache_dirs = IF c = 0 THEN {}
                          ELSE {key[1] : key \in NarrationKeys(screenshot_dir \cup intro_dir)}
    /\ \E previous \in BOOLEAN :
          /\ segment_dir = previous
          /\ segment_files = IF previous THEN {[index |-> 0, state |-> "complete"]} ELSE {}
          /\ concat_list = IF previous THEN <<ManifestLine(0)>> ELSE <<>>
          /\ mp4_file = IF previous THEN "previous" ELSE "absent"
          /\ gif_file = IF previous THEN "previous" ELSE "absent"
    /\ palette_file = "absent"
    /\ cache0 = cache
    /\ ProgramStart
    /\ HistoryStart

\* The narration scenarios: both directories exist, nothing is left of an
\* earlier run, and each narration source has a cache entry as old as the
\* source or none.
InitCache ==
    /\ existing = {"main", "intro"}
    /\ \E qm \in SeqsUpTo(CacheSuffixes, MaxCacheFiles) :
          \E qi \in SeqsUpTo(CacheSuffixes, MaxCacheFiles - Len(qm)) :
             /\ screenshot_dir = FilesOf("main", qm)
             /\ intro_dir = FilesOf("intro", qi)
    /\ no_intro = FALSE
    /\ now = 1
    /\ src_mtime = [key \in Keys |-> 1]
    /\ \E have \in SUBSET NarrationKeys(screenshot_dir \cup intro_dir) :
          /\ cache = [key \in Keys |->
                        IF key \in have THEN [mtime |-> 1, gen |-> 0] ELSE [mtime |-> 0, gen |-> 0]]
          /\ cache_dirs = {key[1] : key \in have}
    /\ segment_dir = FALSE /\ segment_files = {} /\ concat_list = <<>>
    /\ mp4_file = "absent" /\ gif_file = "absent" /\ palette_file = "absent"
    /\ cache0 = cache
    /\ ProgramStart
    /\ HistoryStart

\* sys.exit(1), or an exception nothing catches.
Abort ==
    /\ pc' = "exit"
    /\ exit_code' = 1

\* --------------------------------------------------------------- catalogue
\* main(), from the directory check to the first-item check.
Catalog ==
    /\ pc = "catalog"
    /\ IF "main" \notin existing
       THEN /\ Abort
            /\ UNCHANGED <<main_files, intro_files, media_files, use_intro,
                           image_count, audio_count, tts_count>>
       ELSE LET mf == Scan("main", screenshot_dir)
                media == IntroScan \o mf
                images == CountSuffix(media, {".png"})
            IN  /\ main_files' = mf
                /\ IF mf = <<>>
                   THEN /\ Abort
                        /\ UNCHANGED <<intro_files, media_files, use_intro,
                                       image_count, audio_count, tts_count>>
                   ELSE /\ intro_files' = IntroScan
                        /\ use_intro' = UseIntro
                        /\ media_files' = media
                        /\ image_count' = images
                        /\ audio_count' = CountSuffix(media, {".mp3", ".wav"})
                        /\ tts_count' = CountSuffix(media, {".txt"})
                        /\ IF images = 0 \/ ~FirstItemOk(media)
                           THEN Abort
                           ELSE /\ pc' = IF CountSuffix(media, {".txt"}) > 0 THEN "resolve" ELSE "prepare"
                                /\ UNCHANGED exit_code
    /\ UNCHANGED <<fs_vars, no_intro, converted_files, i, segment_index, current_image,
                   total_duration, hist_vars>>

\* -------------------------------------------------------------- narration
\* A counter of the history, kept for the sources modified since their
\* artifact was written.
Count(counter, key) ==
    IF key \in touched THEN [counter EXCEPT ![key] = @ + 1] ELSE counter

\* One turn of the conversion loop: the next item of media_files is copied,
\* or, when it is a .txt, replaced by its cache artifact, synthesized first
\* unless the artifact is fresh.  The loop's last turn installs the list.
ResolveItem ==
    /\ pc = "resolve"
    /\ LET p == Len(converted_files) + 1
           f == media_files[p]
           key == CacheKey(f)
           Install(item) ==
               /\ converted_files' = Append(converted_files, item)
               /\ IF p = Len(media_files)
                  THEN /\ media_files' = Append(converted_files, item)
                       /\ pc' = "prepare"
                  ELSE UNCHANGED <<media_files, pc>>
               /\ UNCHANGED exit_code
       IN  IF ~IsTxt(f)
           THEN /\ Install(f)
                /\ UNCHANGED <<cache_dirs, cache, now, audio_count, synth_calls, regen, runs_since>>
           ELSE /\ cache_dirs' = cache_dirs \cup {wav_cache_dir(f)}
                /\ IF CacheFresh(cache[key].mtime, src_mtime[KeyOf(f)])
                   THEN /\ Install(wav_path(f))
                        /\ audio_count' = audio_count + 1
                        /\ runs_since' = Count(runs_since, KeyOf(f))
                        /\ UNCHANGED <<cache, now, synth_calls, regen>>
                   ELSE /\ synth_calls' = synth_calls \cup {f}
                        /\ \E out \in TtsOutcomes :
                              IF out = "ok"
                              THEN \E t \in now..(IF now < MaxClock THEN MaxClock ELSE now) :
                                      /\ now' = t
                                      /\ cache' = [cache EXCEPT ![key] =
                                                     [mtime |-> t, gen |-> @.gen + 1]]
                                      /\ Install(wav_path(f))
                                      /\ audio_count' = audio_count + 1
                                      /\ regen' = Count(regen, KeyOf(f))
                                      /\ runs_since' = Count(runs_since, KeyOf(f))
                              ELSE /\ Abort
                                   /\ UNCHANGED <<cache, now, converted_files, media_files,
                                                  audio_count, regen, runs_since>>
    /\ UNCHANGED <<existing, screenshot_dir, intro_dir, src_mtime, segment_dir, segment_files,
                   concat_list, mp4_file, gif_file, palette_file, no_intro,
                   main_files, intro_files, use_intro, image_count, tts_count,
                   i, segment_index, current_image, total_duration,
                   timeline, probe_value, ffmpeg_calls, cache0, build, touched>>

\* ------------------------------------------------------------- preparation
\* The output and segment directories are created, the segment directory
\* emptied, the previous outputs deleted, and concat-list.txt opened for
\* writing.
Prepare ==
    /\ pc = "prepare"
    /\ segment_dir' = TRUE
    /\ segment_files' = {}
    /\ concat_list' = <<>>
    /\ mp4_file' = "absent"
    /\ gif_file' = "absent"
    /\ segment_index' = 0
    /\ current_image' = NoFile
    /\ total_duration' = 0
    /\ i' = 1
    /\ pc' = "pass"
    /\ UNCHANGED <<existing, screenshot_dir, intro_dir, cache_dirs, cache, src_mtime, now,
                   palette_file, no_intro, exit_code, main_files, intro_files, media_files,
                   use_intro, image_count, audio_count, tts_count, converted_files, hist_vars>>

\* ---------------------------------------------------------------- the pass
\* What an ffmpeg process leaves at its output path.
FileAfter(before, out) ==
    CASE out = "ok" -> "complete"
      [] out = "fail-partial" -> "partial"
      [] OTHER -> before

\* One turn of the segment loop, for the item at position i (positions
\* count from 1): an image renders a silent segment unless audio follows,
\* an audio item is probed and rendered over the current image, and the
\* turn ends with the manifest line and the index increment unless a
\* continue statement skipped them.
PassStep ==
    /\ pc = "pass"
    /\ LET f == media_files[i]
           idx == segment_index
           Advance ==
               /\ i' = i + 1
               /\ pc' = IF i = Len(media_files) THEN "concat" ELSE "pass"
               /\ UNCHANGED exit_code
           WriteLine ==
               /\ concat_list' = Append(concat_list, ManifestLine(idx))
               /\ segment_index' = idx + 1
               /\ Advance
           Render(kind, image, audio, duration) ==
               \E out \in FfmpegOutcomes :
                  /\ ffmpeg_calls' = Append(ffmpeg_calls,
                                        [stage |-> "segment", index |-> idx, outcome |-> out])
                  /\ segment_files' =
                        IF FileAfter("absent", out) = "absent" THEN segment_files
                        ELSE segment_files \cup {[index |-> idx, state |-> FileAfter("absent", out)]}
                  /\ IF CheckedRunRaises(out)
                     THEN /\ Abort
                          /\ UNCHANGED <<concat_list, segment_index, i, total_duration, timeline>>
                     ELSE /\ timeline' = Append(timeline,
                                            [kind |-> kind, image |-> image, audio |-> audio,
                                             duration |-> duration, index |-> idx, pos |-> i])
                          /\ total_duration' = total_duration + duration
                          /\ WriteLine
       IN  CASE IsPng(f) ->
                  /\ current_image' = f
                  /\ UNCHANGED probe_value
                  /\ IF NextIsAudio(media_files, i)
                     THEN /\ Advance
                          /\ UNCHANGED <<concat_list, segment_index, total_duration, timeline,
                                         ffmpeg_calls, segment_files>>
                     ELSE Render("SilentHold", f, NoFile, FRAME_DURATION)
             [] IsAudio(f) ->
                  /\ UNCHANGED current_image
                  /\ \E value \in ProbeOutputs :
                        /\ probe_value' = value
                        /\ IF get_audio_duration(value) = None
                           THEN /\ Advance
                                /\ UNCHANGED <<concat_list, segment_index, total_duration,
                                               timeline, ffmpeg_calls, segment_files>>
                           ELSE IF current_image = NoFile
                           THEN /\ Abort
                                /\ UNCHANGED <<concat_list, segment_index, total_duration, i,
                                               timeline, ffmpeg_calls, segment_files>>
                           ELSE Render("AudioHeld", current_image, f, get_audio_duration(value))
             [] OTHER ->
                  /\ WriteLine
                  /\ UNCHANGED <<current_image, probe_value, total_duration, timeline,
                                 ffmpeg_calls, segment_files>>
    /\ UNCHANGED <<existing, screenshot_dir, intro_dir, cache_dirs, cache, src_mtime, now,
                   segment_dir, mp4_file, gif_file, palette_file, no_intro,
                   main_files, intro_files, media_files, use_intro,
                   image_count, audio_count, tts_count, converted_files,
                   synth_calls, cache0, build, touched, regen, runs_since>>

\* ------------------------------------------------------- the final outputs
\* The concat demuxer can succeed only when every line of the manifest names
\* a segment file that is there in full.
ManifestPlayable ==
    /\ concat_list # <<>>
    /\ \A n \in 1..Len(concat_list) :
          \E sf \in segment_files :
             /\ segment_file(sf.index) = ParseManifestLine(concat_list[n])
             /\ sf.state = "complete"

\* The *.png glob of the GIF passes: the primary directory's files whose
\* extension is spelled .png.
GifFrames == {f \in screenshot_dir : IsPng(f)}

\* The concatenation: run_ffmpeg with a capture filter does not look at the
\* exit status; only a missing output file ends the run.
Concat ==
    /\ pc = "concat"
    /\ \E out \in FfmpegOutcomes :
          /\ out = "ok" => ManifestPlayable
          /\ ffmpeg_calls' = Append(ffmpeg_calls,
                                [stage |-> "concat", index |-> 0, outcome |-> out])
          /\ mp4_file' = FileAfter(mp4_file, out)
          /\ IF FileAfter(mp4_file, out) = "absent"
             THEN Abort
             ELSE pc' = "palette" /\ UNCHANGED exit_code
    /\ UNCHANGED <<existing, screenshot_dir, intro_dir, cache_dirs, cache, src_mtime, now,
                   segment_dir, segment_files, concat_list, gif_file, palette_file, no_intro,
                   main_files, intro_files, media_files, use_intro,
                   image_count, audio_count, tts_count, converted_files,
                   i, segment_index, current_image, total_duration,
                   timeline, synth_calls, probe_value, cache0, build, touched, regen, runs_since>>

\* The palette pass of the GIF export.
Palette ==
    /\ pc = "palette"
    /\ \E out \in FfmpegOutcomes :
          /\ out = "ok" => GifFrames # {}
          /\ ffmpeg_calls' = Append(ffmpeg_calls,
                                [stage |-> "palette", index |-> 0, outcome |-> out])
          /\ palette_file' = FileAfter(palette_file, out)
          /\ IF FileAfter(palette_file, out) = "absent"
             THEN Abort
             ELSE pc' = "gif" /\ UNCHANGED exit_code
    /\ UNCHANGED <<existing, screenshot_dir, intro_dir, cache_dirs, cache, src_mtime, now,
                   segment_dir, segment_files, concat_list, mp4_file, gif_file, no_intro,
                   main_files, intro_files, media_files, use_intro,
                   image_count, audio_count, tts_count, converted_files,
                   i, segment_index, current_image, total_duration,
                   timeline, synth_calls, probe_value, cache0, build, touched, regen, runs_since>>

\* The palette-use pass, the removal of the palette and, when the GIF is
\* there, the removal of the segment directory and the normal exit.
Gif ==
    /\ pc = "gif"
    /\ \E out \in FfmpegOutcomes :
          /\ out = "ok" => GifFrames # {} /\ palette_file = "complete"
          /\ ffmpeg_calls' = Append(ffmpeg_calls,
                                [stage |-> "gif", index |-> 0, outcome |-> out])
          /\ gif_file' = FileAfter(gif_file, out)
          /\ palette_file' = "absent"
          /\ IF FileAfter(gif_file, out) = "absent"
             THEN /\ Abort
                  /\ UNCHANGED <<segment_dir, segment_files, concat_list>>
             ELSE /\ segment_dir' = FALSE
                  /\ segment_files' = {}
                  /\ concat_list' = <<>>
                  /\ pc' = "done"
                  /\ exit_code' = 0
    /\ UNCHANGED <<existing, screenshot_dir, intro_dir, cache_dirs, cache, src_mtime, now,
                   mp4_file, no_intro,
                   main_files, intro_files, media_files, use_intro,
                   image_count, audio_count, tts_count, converted_files,
                   i, segment_index, current_image, total_duration,
                   timeline, synth_calls, probe_value, cache0, build, touched, regen, runs_since>>

\* ------------------------------------------------- between one run and the next
\* The program is started again on the same directories.
Rebuild ==
    /\ pc \in {"done", "exit"}
    /\ build < MaxBuilds
    /\ build' = build + 1
    /\ cache0' = cache
    /\ pc' = "catalog"
    /\ exit_code' = None
    /\ main_files' = <<>> /\ intro_files' = <<>> /\ media_files' = <<>>
    /\ use_intro' = FALSE
    /\ image_count' = 0 /\ audio_count' = 0 /\ tts_count' = 0
    /\ converted_files' = <<>>
    /\ i' = 1 /\ segment_index' = 0 /\ current_image' = NoFile /\ total_duration' = 0
    /\ timeline' = <<>> /\ synth_calls' = {} /\ probe_value' = "-" /\ ffmpeg_calls' = <<>>
    /\ UNCHANGED <<fs_vars, no_intro, touched, regen, runs_since>>

\* The author edits a narration source before a run.
Touch ==
    /\ pc = "catalog"
    /\ \E key \in NarrationKeys(screenshot_dir \cup intro_dir) :
          /\ src_mtime' = [src_mtime EXCEPT ![key] = now]
          /\ touched' = IF cache[key].mtime # 0 THEN touched \cup {key} ELSE touched \ {key}
          /\ regen' = [regen EXCEPT ![key] = 0]
          /\ runs_since' = [runs_since EXCEPT ![key] = 0]
    /\ UNCHANGED <<existing, screenshot_dir, intro_dir, cache_dirs, cache, now,
                   segment_dir, segment_files, concat_list, mp4_file, gif_file, palette_file,
                   no_intro, prog_vars, timeline, synth_calls, probe_value, ffmpeg_calls,
                   cache0, build>>

\* Time passes before a run.
Tick ==
    /\ pc = "catalog"
    /\ now < MaxClock
    /\ now' = now + 1
    /\ UNCHANGED <<existing, screenshot_dir, intro_dir, cache_dirs, cache, src_mtime,
                   segment_dir, segment_files, concat_list, mp4_file, gif_file, palette_file,
                   no_intro, prog_vars, hist_vars>>

\* ---------------------------------------------------------- specifications
\* One run of the program.
Next ==
    \/ Catalog
    \/ ResolveItem
    \/ Prepare
    \/ PassStep
    \/ Concat
    \/ Palette
    \/ Gif

Spec == Init /\ [][Next]_vars

\* Several runs on the same directories, with edits of the narration
\* sources and the passing of time between them.
NextCache ==
    \/ Next
    \/ Rebuild
    \/ Touch
    \/ Tick

SpecCache == InitCache /\ [][NextCache]_vars

\* ------------------------------------------------------------------ claims
\* The catalogued list of this run, before narration is resolved.
Catalogued == intro_files \o main_files

\* The items the pass has dealt with.
Processed(p) == p < i

SegmentsAt(p) == {n \in 1..Len(timeline) : timeline[n].pos = p}

IsImageItem(f) == KindOf(f) = "Image"
IsAudioItem(f) == KindOf(f) = "AudioClip"

\* C1: an image item the pass has dealt with has a SilentHold segment of
\* FRAME_DURATION exactly when no audio item follows it, and no segment at
\* all when one does.
C1_SilentHoldIffNoAudioNext ==
    \A p \in 1..Len(media_files) :
       (Processed(p) /\ IsImageItem(media_files[p])) =>
          IF p + 1 <= Len(media_files) /\ IsAudioItem(media_files[p + 1])
          THEN SegmentsAt(p) = {}
          ELSE /\ Cardinality(SegmentsAt(p)) = 1
               /\ \A n \in SegmentsAt(p) :
                     /\ timeline[n].kind = "SilentHold"
                     /\ timeline[n].image = media_files[p]
                     /\ timeline[n].duration = FRAME_DURATION

\* The position of the latest image item before position p (0: none).
LastImageBefore(media, p) ==
    LET before == {q \in 1..(p - 1) : IsImageItem(media[q])}
    IN  IF before = {} THEN 0 ELSE CHOOSE q \in before : \A r \in before : r <= q

\* C2: every AudioHeld segment holds the latest image item that precedes
\* its audio item in the media list.
C2_AudioHeldOnLatestImage ==
    \A n \in 1..Len(timeline) :
       timeline[n].kind = "AudioHeld" =>
          /\ LastImageBefore(media_files, timeline[n].pos) # 0
          /\ timeline[n].image = media_files[LastImageBefore(media_files, timeline[n].pos)]

\* What the duration probe prints when it fails: nothing, N/A, or text that
\* is no number.
FailingProbeOutputs == {"", "N/A", "abc"}

\* A turn of the pass in which the probe of the audio item failed.
ProbeFailedStep ==
    /\ pc = "pass"
    /\ i' # i \/ pc' # pc
    /\ IsAudio(media_files[i])
    /\ probe_value' \in FailingProbeOutputs

FreshAtStart(f) ==
    /\ cache0[KeyOf(f)].mtime # 0
    /\ cache0[KeyOf(f)].mtime > src_mtime[KeyOf(f)]

\* C4: a narration item is resolved without a synthesis call exactly when
\* its cache entry was fresh at the start of the run, and a fresh entry is
\* left as it was.
C4_FreshMeansNoSynthesis ==
    /\ \A p \in 1..Len(converted_files) :
          IsTxt(Catalogued[p]) =>
             ((Catalogued[p] \notin synth_calls) <=> FreshAtStart(Catalogued[p]))
    /\ \A f \in screenshot_dir \cup intro_dir :
          (KindOf(f) = "NarrationText" /\ FreshAtStart(f)) =>
             /\ f \notin synth_calls
             /\ cache[KeyOf(f)] = cache0[KeyOf(f)]

\* A run that has resolved a narration item from a fresh cache entry.
C4_Witness ==
    \E p \in 1..Len(converted_files) :
       /\ IsTxt(Catalogued[p])
       /\ FreshAtStart(Catalogued[p])
       /\ Catalogued[p] \notin synth_calls
       /\ pc = "done"

C6_ManifestIsRenderedSegments ==
    pc = "concat" =>
       /\ Len(concat_list) = Len(timeline)
       /\ \A n \in 1..Len(concat_list) :
             /\ n <= Len(timeline)
             /\ concat_list[n] = ManifestLine(timeline[n].index)
             /\ ParseManifestLine(concat_list[n]) = segment_file(n - 1)
             /\ [index |-> n - 1, state |-> "complete"] \in segment_files

\* The run was turned down by the checks of the catalogue.
RejectedByCatalog ==
    /\ pc = "exit"
    /\ converted_files = <<>>
    /\ synth_calls = {}
    /\ ffmpeg_calls = <<>>
    /\ i = 1

\* C7: an extension in upper case is counted and accepted as a first item
\* as its lower-case spelling is.
C7_CaseInsensitiveKinds ==
    (pc # "catalog" /\ Catalogued # <<>>) =>
       /\ image_count = Cardinality({j \in 1..Len(Catalogued) : IsImageItem(Catalogued[j])})
       /\ IsImageItem(Catalogued[1]) => ~RejectedByCatalog

\* C8: a media list whose first item is no image ends the run with exit
\* status 1 before anything is synthesized or rendered, and the step that
\* finds it out deletes and creates nothing: the outputs of an earlier run,
\* the segment directory and the narration cache stay as they were.
C8_InvalidFirstItemRejected ==
    /\ []((Catalogued # <<>> /\ ~IsImageItem(Catalogued[1])) =>
             /\ pc = "exit"
             /\ exit_code = 1
             /\ synth_calls = {}
             /\ cache = cache0
             /\ timeline = <<>>
             /\ ffmpeg_calls = <<>>)
    /\ [][(Catalogued' # <<>> /\ ~IsImageItem(Catalogued'[1])) =>
             /\ Outputs' = Outputs
             /\ cache' = cache
             /\ cache_dirs' = cache_dirs]_vars

\* A rejected list that holds an image further on, with outputs of an
\* earlier run in place.
C8_Witness ==
    /\ pc = "exit"
    /\ Catalogued # <<>>
    /\ ~IsImageItem(Catalogued[1])
    /\ image_count > 0
    /\ mp4_file = "previous"

\* C9: a segment the encoder failed on is the last thing the run did: the
\* run has ended with exit status 1, the segment has no manifest line, and
\* neither the concatenation nor the GIF export was started.
C9_RenderFailureAborts ==
    \A n \in 1..Len(ffmpeg_calls) :
       (ffmpeg_calls[n].stage = "segment" /\ ffmpeg_calls[n].outcome # "ok") =>
          /\ n = Len(ffmpeg_calls)
          /\ pc = "exit"
          /\ exit_code = 1
          /\ \A l \in 1..Len(concat_list) :
                ParseManifestLine(concat_list[l]) # segment_file(ffmpeg_calls[n].index)
          /\ \A m \in 1..Len(timeline) : timeline[m].index # ffmpeg_calls[n].index

\* The encoder failed on the second segment, with items still to come.
C9_Witness ==
    /\ Len(ffmpeg_calls) = 2
    /\ ffmpeg_calls[2].stage = "segment"
    /\ ffmpeg_calls[2].outcome # "ok"
    /\ i < Len(media_files)
    /\ pc = "exit"

\* C10: a failed concatenation or GIF pass ends the run with exit status 1,
\* and a final MP4 or GIF left by the run was written by an invocation
\* that succeeded.
C10_NoHalfWrittenOutput ==
    pc \in {"done", "exit"} =>
       /\ (\E n \in 1..Len(ffmpeg_calls) :
              /\ ffmpeg_calls[n].stage \in {"concat", "palette", "gif"}
              /\ ffmpeg_calls[n].outcome # "ok") => exit_code = 1
       /\ mp4_file # "partial"
       /\ gif_file # "partial"

\* C11: the rendered segments follow the order of the media-list items they
\* were built from, the n-th segment rendered has index n - 1, and the index
\* counter is the number of segments rendered so far (it advances only when
\* a segment is emitted).
C11_OrderAndIndices ==
    /\ \A m, n \in 1..Len(timeline) : m < n => timeline[m].pos < timeline[n].pos
    /\ \A n \in 1..Len(timeline) : timeline[n].index = n - 1
    /\ segment_index = Len(timeline)

\* The supported items of a directory, in file-name order.
SupportedItems(files) == Sorted({f \in files : KindOf(f) # "Unsupported"})

\* The flag is not given, the intro directory exists and holds at least one
\* supported item.
PrependCase ==
    /\ ~no_intro
    /\ "intro" \in existing
    /\ SupportedItems(intro_dir) # <<>>

\* The checks of the catalogue turn the primary list down by itself.
PrimaryAloneRejected ==
    LET primary == SupportedItems(screenshot_dir)
    IN  \/ "main" \notin existing
        \/ primary = <<>>
        \/ \A j \in 1..Len(primary) : ~IsPng(primary[j])
        \/ ~IsPng(primary[1])

\* C12: the media list the catalogue builds is the intro directory's
\* supported items, sorted, followed by the primary list exactly when the
\* flag is not given and the intro directory exists with a supported item;
\* otherwise it is the primary list alone, and a run the catalogue turns
\* down then is one the primary list alone would have been turned down for.
C12_IntroPrependedExactlyWhen ==
    /\ [][(pc = "catalog" /\ main_files' # <<>>) =>
             /\ use_intro' = PrependCase
             /\ media_files' = IF PrependCase
                               THEN SupportedItems(intro_dir) \o SupportedItems(screenshot_dir)
                               ELSE SupportedItems(screenshot_dir)]_vars
    /\ []((RejectedByCatalog /\ ~PrependCase) => PrimaryAloneRejected)

\* A finished run whose list starts with the intro directory's items and
\* goes on with the primary directory's.
C12_Witness ==
    /\ pc = "done"
    /\ PrependCase
    /\ media_files[1].dir = "intro"
    /\ media_files[Len(media_files)].dir = "main"
    /\ Len(media_files) = Cardinality(intro_dir) + Cardinality(screenshot_dir)

\* The pass has dealt with every item of the media list.
PassCompleted == media_files # <<>> /\ i = Len(media_files) + 1

\* C13: once the pass has run to completion, every image item of the media
\* list is the image of at least one rendered segment, whatever the duration
\* probes of the audio items printed.
C13_EveryImageShown ==
    PassCompleted =>
       \A p \in 1..Len(media_files) :
          IsImageItem(media_files[p]) =>
             \E n \in 1..Len(timeline) : timeline[n].image = media_files[p]

\* The run has gone past the checks of the catalogue.
PreflightPassed == pc \in {"resolve", "prepare", "pass", "concat", "palette", "gif", "done"}

\* C14: when the checks of the catalogue have passed, the primary directory
\* holds at least one image, and the GIF passes, once reached, have at
\* least one input frame.
C14_GifHasAFrame ==
    PreflightPassed =>
       /\ \E f \in screenshot_dir : IsImageItem(f)
       /\ pc \in {"palette", "gif"} => GifFrames # {}

====
